---- MODULE Spec2Model ----
(***************************************************************************)
(* Model of the instance Pod synthesis of pkg/specs/pods.go:               *)
(*   - NewInstance / buildInstance: base build, JSON patch overlay,        *)
(*     lifecycle hook, deferred resolved-spec annotation;                  *)
(*   - getFailureThreshold, createPostgresContainers (probe thresholds);   *)
(*   - CreateAffinitySection / CreateGeneratedAntiAffinity.                *)
(***************************************************************************)
EXTENDS Integers, Sequences, FiniteSets, TLC

VARIABLES
    cluster,      \* the caller's cluster description as it currently reads
    given,        \* the cluster description as it was when the call started
    ctx,          \* the call: whether its context carries a plugin client, its arguments
    pc,           \* position of the NewInstance call
    objs,         \* the Pod objects that exist, by identity
    pod,          \* NewInstance's local variable `pod`: a Pod identity or "nil"
    ret,          \* what NewInstance returned: [pod, err]
    hook,         \* the lifecycle hook call: what it received and answered
    trace,        \* the pipeline steps executed so far, in order
    configuration,\* configuration.Current, the process-wide configuration
    call          \* frame of a pure function call: [fn, args, result, done]

pipelineVars == <<cluster, given, ctx, pc, objs, pod, ret, hook, trace>>
vars == <<cluster, given, ctx, pc, objs, pod, ret, hook, trace, configuration, call>>

----------------------------------------------------------------------------
(* Bounds of the model *)

\* longest JSON patch (number of operations) tried
MaxPatchOps == 1
\* longest tolerations list of the cluster
MaxTolerations == 1
\* largest instance serial
MaxSerial == 1

----------------------------------------------------------------------------
(* Names *)

PostgresContainerName == "postgres"
BootstrapControllerContainerName == "bootstrap-controller"
ClusterSerialAnnotationName == "cnpg.io/nodeSerial"
PodEnvHashAnnotationName == "cnpg.io/podEnvHash"
PodSpecAnnotationName == "cnpg.io/podSpec"

\* Go's nil for a map, a slice or a pointer
Nil == [tag |-> "nil"]
\* a map, slice or object the Pod shares with the cluster description
Shared(n) == [tag |-> "shared", len |-> n]
\* a map or slice owned by the Pod
Own(v) == [tag |-> "own", val |-> v]
\* a non-nil pointer to v
Ptr(v) == [tag |-> "ptr", val |-> v]

\* JSON values of the serialized documents
Absent == [tag |-> "absent"]
JNull == [tag |-> "null"]
JObj(m) == [tag |-> "obj", val |-> m]
JArr(s) == [tag |-> "arr", val |-> s]
JStr(s) == [tag |-> "str", val |-> s]

EmptyMap == [k \in {} |-> ""]

----------------------------------------------------------------------------
(* Reading the Pod's fields, some of which alias the cluster's *)

\* the contents of a map or slice the Pod owns (annotations, containers)
OwnMap(f) == IF f.tag = "nil" THEN EmptyMap ELSE f.val
OwnSeq(f) == IF f.tag = "nil" THEN <<>> ELSE f.val

\* the node selector map the Pod sees
NodeSelectorOf(p, cl) ==
    CASE p.nodeSelector.tag = "nil" -> EmptyMap
      [] p.nodeSelector.tag = "shared" -> cl.nodeSelector
      [] OTHER -> p.nodeSelector.val

\* the tolerations the Pod sees
TolerationsOf(p, cl) ==
    CASE p.tolerations.tag = "nil" -> <<>>
      [] p.tolerations.tag = "shared" -> SubSeq(cl.tolerations, 1, p.tolerations.len)
      [] OTHER -> p.tolerations.val

\* encoding/json with omitempty: an empty map or slice is left out
OmitEmptyMap(m) == IF DOMAIN m = {} THEN Absent ELSE JObj(m)
OmitEmptySeq(s) == IF Len(s) = 0 THEN Absent ELSE JArr(s)

\* json.Marshal(pod.Spec): the value stored by the resolved-spec annotation
MarshalSpec(p, cl) ==
    [ initContainers |-> OmitEmptySeq(OwnSeq(p.initContainers)),
      containers     |-> IF p.containers.tag = "nil" THEN JNull ELSE JArr(p.containers.val),
      affinity       |-> IF p.affinity.tag = "nil" THEN Absent ELSE JObj(p.affinity.val),
      nodeSelector   |-> OmitEmptyMap(NodeSelectorOf(p, cl)),
      tolerations    |-> OmitEmptySeq(TolerationsOf(p, cl)) ]

\* json.Marshal(pod): metadata and spec
MarshalPod(p, cl) ==
    [ name |-> JStr(p.name),
      annotations |-> OmitEmptyMap(OwnMap(p.annotations)) ] @@ MarshalSpec(p, cl)

----------------------------------------------------------------------------
(* The JSON patch of the cnpg.io/podPatch annotation (RFC 6902) *)

Op(o, f, k, v) == [op |-> o, field |-> f, key |-> k, value |-> v]

\* the patch operations tried; key "" addresses the whole field, "-" the
\* end of a list, "0" its first element
PatchOps ==
    { Op("add",     "containers",     "-",  JObj([name |-> "sidecar"])),
      Op("add",     "containers",     "0",  JObj([name |-> "sidecar"])),
      Op("remove",  "containers",     "0",  Absent),
      Op("replace", "containers",     "",   JStr("oops")),
      Op("add",     "initContainers", "-",  JObj([name |-> "extra-init"])),
      Op("add",     "nodeSelector",   "k2", JStr("v2")),
      Op("replace", "nodeSelector",   "k1", JStr("v9")),
      Op("remove",  "nodeSelector",   "",   Absent),
      Op("replace", "tolerations",    "0",  JStr("t9")),
      Op("add",     "tolerations",    "-",  JStr("t9")),
      Op("replace", "annotations",    "",   JNull),
      Op("remove",  "annotations",    ClusterSerialAnnotationName, Absent),
      Op("test",    "initContainers", "",   JNull) }

\* the texts the podPatch annotation may hold
NoPatch == [text |-> "", ops |-> <<>>]
Malformed == [text |-> "{malformed", ops |-> <<>>]
SeqsUpTo(S, n) == UNION { [1..k -> S] : k \in 0..n }
PodPatches ==
    {NoPatch, Malformed} \cup { [text |-> "json", ops |-> s] : s \in SeqsUpTo(PatchOps, MaxPatchOps) }

\* a JSON pointer token that is a list index
Index(k) == CASE k = "0" -> 0 [] k = "1" -> 1 [] k = "2" -> 2 [] OTHER -> -1

InsertAt(s, i, e) == SubSeq(s, 1, i) \o <<e>> \o SubSeq(s, i + 1, Len(s))
RemoveAt(s, i) == SubSeq(s, 1, i) \o SubSeq(s, i + 2, Len(s))
ReplaceAt(s, i, e) == [s EXCEPT ![i + 1] = e]
WithKey(m, k, v) == [x \in DOMAIN m \cup {k} |-> IF x = k THEN v ELSE m[x]]
WithoutKey(m, k) == [x \in DOMAIN m \ {k} |-> m[x]]

Failed == [ok |-> FALSE, val |-> Absent]
Done(v) == [ok |-> TRUE, val |-> v]

\* one operation on a member of an object
ApplyToObject(m, o) ==
    CASE o.op = "add" -> Done(JObj(WithKey(m, o.key, o.value.val)))
      [] o.op = "replace" ->
            IF o.key \in DOMAIN m THEN Done(JObj(WithKey(m, o.key, o.value.val))) ELSE Failed
      [] o.op = "remove" ->
            IF o.key \in DOMAIN m THEN Done(JObj(WithoutKey(m, o.key))) ELSE Failed
      [] OTHER -> IF o.key \in DOMAIN m /\ m[o.key] = o.value.val THEN Done(JObj(m)) ELSE Failed

\* one operation on an element of an array
ApplyToArray(s, o) ==
    LET i == Index(o.key) IN
    CASE o.op = "add" /\ o.key = "-" -> Done(JArr(Append(s, o.value.val)))
      [] o.op = "add" /\ o.key # "-" ->
            IF i >= 0 /\ i <= Len(s) THEN Done(JArr(InsertAt(s, i, o.value.val))) ELSE Failed
      [] o.op = "replace" ->
            IF i >= 0 /\ i < Len(s) THEN Done(JArr(ReplaceAt(s, i, o.value.val))) ELSE Failed
      [] o.op = "remove" ->
            IF i >= 0 /\ i < Len(s) THEN Done(JArr(RemoveAt(s, i))) ELSE Failed
      [] OTHER -> IF i >= 0 /\ i < Len(s) /\ s[i + 1] = o.value.val THEN Done(JArr(s)) ELSE Failed

\* one operation on a field of the document
ApplyToField(v, o) ==
    IF o.key = ""
    THEN CASE o.op = "add" -> Done(o.value)
           [] o.op = "replace" -> IF v.tag = "absent" THEN Failed ELSE Done(o.value)
           [] o.op = "remove" -> IF v.tag = "absent" THEN Failed ELSE Done(Absent)
           [] OTHER -> IF v = o.value THEN Done(v) ELSE Failed
    ELSE CASE v.tag = "obj" -> ApplyToObject(v.val, o)
           [] v.tag = "arr" -> ApplyToArray(v.val, o)
           [] OTHER -> Failed

\* patch.Apply(doc): the operations in order, the first failure aborts
RECURSIVE Apply(_, _)
Apply(doc, ops) ==
    IF ops = <<>> THEN Done(doc)
    ELSE LET r == ApplyToField(doc[Head(ops).field], Head(ops)) IN
         IF r.ok THEN Apply([doc EXCEPT ![Head(ops).field] = r.val], Tail(ops))
         ELSE [ok |-> FALSE, val |-> doc]

----------------------------------------------------------------------------
(* json.Unmarshal(doc, pod): decoding INTO the existing Pod object.        *)
(* A member the document lacks leaves the field as it is; null sets a map  *)
(* or slice to nil; an object is decoded into the existing map, keeping    *)
(* its other entries; an array is decoded element by element into the      *)
(* existing backing array, which is replaced only once it is too short; a  *)
(* value of the wrong JSON type is skipped and reported when decoding ends.*)

\* a map field the Pod owns
UnmarshalOwnMap(cur, v) ==
    CASE v.tag = "null" -> Nil
      [] v.tag = "obj" -> Own(v.val @@ OwnMap(cur))
      [] OTHER -> cur

\* a container as the decoder finds it in a slot the slice did not hold
ZeroContainer ==
    [ name |-> "", env |-> <<>>, envFrom |-> <<>>, command |-> <<>>,
      startupProbe |-> Nil, readinessProbe |-> Nil, livenessProbe |-> Nil ]

\* a slice of containers the Pod owns: each element is decoded into the
\* element the slice holds at that index, whose other fields stay
UnmarshalContainers(cur, v) ==
    CASE v.tag = "null" -> Nil
      [] v.tag = "arr" ->
            Own([i \in 1..Len(v.val) |->
                    v.val[i] @@ (IF i <= Len(OwnSeq(cur)) THEN OwnSeq(cur)[i]
                                 ELSE ZeroContainer)])
      [] OTHER -> cur

\* the node selector field, whose map may be the cluster's
UnmarshalNodeSelector(cur, v) ==
    CASE v.tag = "null" -> Nil
      [] v.tag = "obj" /\ cur.tag = "shared" -> cur
      [] v.tag = "obj" /\ cur.tag # "shared" -> Own(v.val @@ OwnMap(cur))
      [] OTHER -> cur

\* the cluster's node selector map after the decoding
NodeSelectorWritten(cur, v, m) ==
    IF v.tag = "obj" /\ cur.tag = "shared" THEN v.val @@ m ELSE m

\* the tolerations field, whose backing array may be the cluster's (its
\* capacity taken to be its length)
UnmarshalTolerations(cur, v, arr) ==
    CASE v.tag = "null" -> Nil
      [] v.tag = "arr" /\ cur.tag = "shared" /\ Len(v.val) = 0 -> Own(<<>>)
      [] v.tag = "arr" /\ cur.tag = "shared" /\ Len(v.val) > 0 ->
            IF Len(v.val) <= Len(arr) THEN Shared(Len(v.val)) ELSE Own(v.val)
      [] v.tag = "arr" /\ cur.tag # "shared" -> Own(v.val)
      [] OTHER -> cur

\* the cluster's tolerations after the decoding: the elements decoded in place
TolerationsWritten(cur, v, arr) ==
    IF v.tag = "arr" /\ cur.tag = "shared"
    THEN [i \in 1..Len(arr) |-> IF i <= Len(v.val) THEN v.val[i] ELSE arr[i]]
    ELSE arr

\* a pointer field: decoded into the object it points to
UnmarshalPtr(cur, v) ==
    CASE v.tag = "null" -> Nil
      [] v.tag = "obj" -> Ptr(v.val)
      [] OTHER -> cur

\* whether a member has a JSON type its field cannot take
TypeError(v, want) == v.tag \notin {"absent", "null", want}

Unmarshal(doc, p, cl) ==
    [ pod |-> [ name           |-> IF doc.name.tag = "str" THEN doc.name.val ELSE p.name,
                annotations    |-> UnmarshalOwnMap(p.annotations, doc.annotations),
                affinity       |-> UnmarshalPtr(p.affinity, doc.affinity),
                initContainers |-> UnmarshalContainers(p.initContainers, doc.initContainers),
                containers     |-> UnmarshalContainers(p.containers, doc.containers),
                nodeSelector   |-> UnmarshalNodeSelector(p.nodeSelector, doc.nodeSelector),
                tolerations    |-> UnmarshalTolerations(p.tolerations, doc.tolerations,
                                                        cl.tolerations) ],
      cluster |-> [cl EXCEPT
                     !.nodeSelector = NodeSelectorWritten(p.nodeSelector, doc.nodeSelector, @),
                     !.tolerations = TolerationsWritten(p.tolerations, doc.tolerations, @)],
      err |-> \/ TypeError(doc.name, "str")
              \/ TypeError(doc.affinity, "obj")
              \/ TypeError(doc.annotations, "obj")
              \/ TypeError(doc.initContainers, "arr")
              \/ TypeError(doc.containers, "arr")
              \/ TypeError(doc.nodeSelector, "obj")
              \/ TypeError(doc.tolerations, "arr") ]

----------------------------------------------------------------------------
(* Probes and failure thresholds *)

ReadinessProbePeriod == 10
StartupProbePeriod == 10
LivenessProbePeriod == 10
\* TimeoutSeconds of the three default probes
DefaultProbeTimeout == 5

Probe(period, timeout, path) ==
    [ periodSeconds |-> period, timeoutSeconds |-> timeout, failureThreshold |-> 0,
      path |-> path, scheme |-> "HTTP" ]

\* apiv1.Probe.ApplyInto: only the fields the override sets (non-zero)
\* replace the probe's; a nil override changes nothing
ApplyInto(override, k8sProbe) ==
    IF override.tag = "nil" THEN k8sProbe
    ELSE [ k8sProbe EXCEPT
             !.periodSeconds = IF override.periodSeconds # 0 THEN override.periodSeconds ELSE @,
             !.timeoutSeconds = IF override.timeoutSeconds # 0 THEN override.timeoutSeconds ELSE @,
             !.failureThreshold =
                 IF override.failureThreshold # 0 THEN override.failureThreshold ELSE @ ]

\* math.Ceil(float64(n) / float64(d)) for d > 0: exact on int32 operands
Ceil(n, d) == -((-n) \div d)

\* the threshold with an integer division in place of the ceiling
getFailureThresholdTruncating(startupDelay, period) ==
    IF startupDelay <= period THEN 1 ELSE startupDelay \div period

getFailureThreshold(startupDelay, period) ==
    IF startupDelay <= period THEN 1 ELSE Ceil(startupDelay, period)

ensureCustomProbesConfiguration(cl, container) ==
    IF cl.probes.tag = "nil" THEN container
    ELSE [ container EXCEPT
             !.livenessProbe = ApplyInto(cl.probes.liveness, @),
             !.readinessProbe = ApplyInto(cl.probes.readiness, @),
             !.startupProbe = ApplyInto(cl.probes.startup, @) ]

\* lines 299-311: the thresholds left unset by the overrides
ensureThresholds(cl, container) ==
    LET s == IF container.startupProbe.failureThreshold = 0
             THEN [container EXCEPT !.startupProbe.failureThreshold =
                      getFailureThreshold(cl.maxStartDelay, container.startupProbe.periodSeconds)]
             ELSE container
    IN IF cl.livenessProbeTimeout.tag # "nil" /\ s.livenessProbe.failureThreshold = 0
       THEN [s EXCEPT !.livenessProbe.failureThreshold =
                getFailureThreshold(cl.livenessProbeTimeout.val, s.livenessProbe.periodSeconds)]
       ELSE s

WithScheme(probe, https) == IF https THEN [probe EXCEPT !.scheme = "HTTPS"] ELSE probe

\* the command-line flag that carries a log level
LogLevelFlag(level) ==
    CASE level = "debug" -> "--log-level=debug"
      [] level = "error" -> "--log-level=error"
      [] OTHER -> "--log-level=info"

\* the logging options of the instance manager, appended to the command
addManagerLoggingOptions(cl, container) ==
    IF cl.logLevel # ""
    THEN [container EXCEPT !.command = Append(@, LogLevelFlag(cl.logLevel))]
    ELSE container

\* the containers with the thresholds resolved before the overrides are merged
createPostgresContainersThresholdsFirst(cl, envConfig, enableHTTPS) ==
    LET base == [ name |-> PostgresContainerName,
                  env |-> envConfig.envVars,
                  envFrom |-> envConfig.envFrom,
                  startupProbe |-> Probe(StartupProbePeriod, DefaultProbeTimeout, "/startupz"),
                  readinessProbe |-> Probe(ReadinessProbePeriod, DefaultProbeTimeout, "/readyz"),
                  livenessProbe |-> Probe(LivenessProbePeriod, DefaultProbeTimeout, "/healthz"),
                  command |-> <<"/controller/manager", "instance", "run">> ]
        tls == IF enableHTTPS
               THEN [ base EXCEPT !.startupProbe = WithScheme(@, TRUE),
                                  !.livenessProbe = WithScheme(@, TRUE),
                                  !.readinessProbe = WithScheme(@, TRUE),
                                  !.command = Append(@, "--status-port-tls") ]
               ELSE base
        metrics == IF cl.metricsTLS
                   THEN [tls EXCEPT !.command = Append(@, "--metrics-port-tls")]
                   ELSE tls
    IN << ensureCustomProbesConfiguration(cl,
              ensureThresholds(cl, addManagerLoggingOptions(cl, metrics))) >>

\* the containers with the metrics flag given only next to the status flag
createPostgresContainersOneToggle(cl, envConfig, enableHTTPS) ==
    LET base == [ name |-> PostgresContainerName,
                  env |-> envConfig.envVars,
                  envFrom |-> envConfig.envFrom,
                  startupProbe |-> Probe(StartupProbePeriod, DefaultProbeTimeout, "/startupz"),
                  readinessProbe |-> Probe(ReadinessProbePeriod, DefaultProbeTimeout, "/readyz"),
                  livenessProbe |-> Probe(LivenessProbePeriod, DefaultProbeTimeout, "/healthz"),
                  command |-> <<"/controller/manager", "instance", "run">> ]
        tls == IF enableHTTPS
               THEN [ base EXCEPT !.startupProbe = WithScheme(@, TRUE),
                                  !.livenessProbe = WithScheme(@, TRUE),
                                  !.readinessProbe = WithScheme(@, TRUE),
                                  !.command = Append(@, "--status-port-tls") ]
               ELSE base
        metrics == IF cl.metricsTLS /\ enableHTTPS
                   THEN [tls EXCEPT !.command = Append(@, "--metrics-port-tls")]
                   ELSE tls
    IN << ensureThresholds(cl,
              ensureCustomProbesConfiguration(cl, addManagerLoggingOptions(cl, metrics))) >>

createPostgresContainers(cl, envConfig, enableHTTPS) ==
    LET base == [ name |-> PostgresContainerName,
                  env |-> envConfig.envVars,
                  envFrom |-> envConfig.envFrom,
                  startupProbe |-> Probe(StartupProbePeriod, DefaultProbeTimeout, "/startupz"),
                  readinessProbe |-> Probe(ReadinessProbePeriod, DefaultProbeTimeout, "/readyz"),
                  livenessProbe |-> Probe(LivenessProbePeriod, DefaultProbeTimeout, "/healthz"),
                  command |-> <<"/controller/manager", "instance", "run">> ]
        tls == IF enableHTTPS
               THEN [ base EXCEPT !.startupProbe = WithScheme(@, TRUE),
                                  !.livenessProbe = WithScheme(@, TRUE),
                                  !.readinessProbe = WithScheme(@, TRUE),
                                  !.command = Append(@, "--status-port-tls") ]
               ELSE base
        metrics == IF cl.metricsTLS
                   THEN [tls EXCEPT !.command = Append(@, "--metrics-port-tls")]
                   ELSE tls
    IN << ensureThresholds(cl,
              ensureCustomProbesConfiguration(cl, addManagerLoggingOptions(cl, metrics))) >>

----------------------------------------------------------------------------
(* Affinity *)

ClusterLabelName == "cnpg.io/cluster"
PodRoleLabelName == "cnpg.io/podRole"
PodRoleInstance == "instance"
PodAntiAffinityTypeRequired == "required"
PodAntiAffinityTypePreferred == "preferred"
DefaultTopologyKey == "kubernetes.io/hostname"
\* Weight of the generated preferred term
GeneratedWeight == 100

Requirement(k, v) == [key |-> k, operator |-> "In", values |-> <<v>>]

PodAffinityTerm(clusterName, topologyKey) ==
    [ labelSelector |-> << Requirement(ClusterLabelName, clusterName),
                           Requirement(PodRoleLabelName, PodRoleInstance) >>,
      topologyKey |-> topologyKey ]

\* corev1.PodAntiAffinity with its two term lists
PodAntiAffinity(required, preferred) == Ptr([required |-> required, preferred |-> preferred])

\* corev1.Affinity
Affinity(podAffinity, podAntiAffinity, nodeAffinity) ==
    Ptr([ podAffinity |-> podAffinity, podAntiAffinity |-> podAntiAffinity,
          nodeAffinity |-> nodeAffinity ])

\* the generated anti-affinity always on the default topology key
CreateGeneratedAntiAffinityDefaultKey(clusterName, config) ==
    IF config.enablePodAntiAffinity.tag # "nil" /\ ~config.enablePodAntiAffinity.val
    THEN Nil
    ELSE LET topologyKey == DefaultTopologyKey
             podAffinityTerm == PodAffinityTerm(clusterName, topologyKey)
         IN CASE config.podAntiAffinityType = PodAntiAffinityTypeRequired ->
                   Affinity(Nil, PodAntiAffinity(<<podAffinityTerm>>, <<>>), Nil)
              [] config.podAntiAffinityType = PodAntiAffinityTypePreferred ->
                   Affinity(Nil,
                            PodAntiAffinity(<<>>, << [ weight |-> GeneratedWeight,
                                                       podAffinityTerm |-> podAffinityTerm ] >>),
                            Nil)
              [] OTHER -> Nil

CreateGeneratedAntiAffinity(clusterName, config) ==
    IF config.enablePodAntiAffinity.tag # "nil" /\ ~config.enablePodAntiAffinity.val
    THEN Nil
    ELSE LET topologyKey == IF Len(config.topologyKey) = 0 THEN DefaultTopologyKey
                            ELSE config.topologyKey
             podAffinityTerm == PodAffinityTerm(clusterName, topologyKey)
         IN CASE config.podAntiAffinityType = PodAntiAffinityTypeRequired ->
                   Affinity(Nil, PodAntiAffinity(<<podAffinityTerm>>, <<>>), Nil)
              [] config.podAntiAffinityType = PodAntiAffinityTypePreferred ->
                   Affinity(Nil,
                            PodAntiAffinity(<<>>, << [ weight |-> GeneratedWeight,
                                                       podAffinityTerm |-> podAffinityTerm ] >>),
                            Nil)
              [] OTHER -> Nil

\* the merge with the user's terms placed before the generated ones
CreateAffinitySectionUserFirst(clusterName, config) ==
    LET generated == CreateGeneratedAntiAffinity(clusterName, config) IN
    IF /\ config.additionalPodAffinity.tag = "nil"
       /\ config.additionalPodAntiAffinity.tag = "nil"
       /\ config.nodeAffinity.tag = "nil"
    THEN generated
    ELSE LET a0 == IF generated.tag = "nil" THEN Affinity(Nil, Nil, Nil).val ELSE generated.val
             a1 == IF config.additionalPodAffinity.tag # "nil"
                   THEN [a0 EXCEPT !.podAffinity = config.additionalPodAffinity]
                   ELSE a0
             anti == IF a1.podAntiAffinity.tag = "nil" THEN PodAntiAffinity(<<>>, <<>>).val
                     ELSE a1.podAntiAffinity.val
             a2 == IF config.additionalPodAntiAffinity.tag # "nil"
                   THEN [a1 EXCEPT !.podAntiAffinity =
                           PodAntiAffinity(
                             config.additionalPodAntiAffinity.val.required \o anti.required,
                             config.additionalPodAntiAffinity.val.preferred \o anti.preferred)]
                   ELSE a1
         IN Ptr(IF config.nodeAffinity.tag # "nil"
                THEN [a2 EXCEPT !.nodeAffinity = config.nodeAffinity]
                ELSE a2)

CreateAffinitySection(clusterName, config) ==
    LET generated == CreateGeneratedAntiAffinity(clusterName, config) IN
    IF /\ config.additionalPodAffinity.tag = "nil"
       /\ config.additionalPodAntiAffinity.tag = "nil"
       /\ config.nodeAffinity.tag = "nil"
    THEN generated
    ELSE LET a0 == IF generated.tag = "nil" THEN Affinity(Nil, Nil, Nil).val ELSE generated.val
             a1 == IF config.additionalPodAffinity.tag # "nil"
                   THEN [a0 EXCEPT !.podAffinity = config.additionalPodAffinity]
                   ELSE a0
             anti == IF a1.podAntiAffinity.tag = "nil" THEN PodAntiAffinity(<<>>, <<>>).val
                     ELSE a1.podAntiAffinity.val
             a2 == IF config.additionalPodAntiAffinity.tag # "nil"
                   THEN [a1 EXCEPT !.podAntiAffinity =
                           PodAntiAffinity(
                             anti.required \o config.additionalPodAntiAffinity.val.required,
                             anti.preferred \o config.additionalPodAntiAffinity.val.preferred)]
                   ELSE a1
         IN Ptr(IF config.nodeAffinity.tag # "nil"
                THEN [a2 EXCEPT !.nodeAffinity = config.nodeAffinity]
                ELSE a2)

----------------------------------------------------------------------------
(* Environment *)

PgDataPath == "/var/lib/postgresql/data/pgdata"
TemporaryDirectory == "/controller/tmp"
SocketDirectory == "/controller/run"
ServerPort == 5432

EnvVar(n, v) == [name |-> n, value |-> v]

\* the environment with the standby timeout entry ahead of the cluster's
CreatePodEnvConfigTimeoutFirst(cl, podName) ==
    LET baseline == << EnvVar("PGDATA", PgDataPath),
                       EnvVar("POD_NAME", podName),
                       EnvVar("NAMESPACE", cl.namespace),
                       EnvVar("CLUSTER_NAME", cl.name),
                       EnvVar("PSQL_HISTORY", TemporaryDirectory \o "/.psql_history"),
                       EnvVar("PGPORT", ToString(ServerPort)),
                       EnvVar("PGHOST", SocketDirectory),
                       EnvVar("TMPDIR", TemporaryDirectory) >>
        timeout == IF configuration.standbyTCPUserTimeout # 0
                   THEN Append(baseline,
                               EnvVar("CNPG_STANDBY_TCP_USER_TIMEOUT",
                                      ToString(configuration.standbyTCPUserTimeout)))
                   ELSE baseline
        envVars == timeout \o cl.env
    IN [ envVars |-> envVars, envFrom |-> cl.envFrom,
         hash |-> <<envVars, cl.envFrom>> ]

CreatePodEnvConfig(cl, podName) ==
    LET baseline == << EnvVar("PGDATA", PgDataPath),
                       EnvVar("POD_NAME", podName),
                       EnvVar("NAMESPACE", cl.namespace),
                       EnvVar("CLUSTER_NAME", cl.name),
                       EnvVar("PSQL_HISTORY", TemporaryDirectory \o "/.psql_history"),
                       EnvVar("PGPORT", ToString(ServerPort)),
                       EnvVar("PGHOST", SocketDirectory),
                       EnvVar("TMPDIR", TemporaryDirectory) >>
        declared == baseline \o cl.env
        envVars == IF configuration.standbyTCPUserTimeout # 0
                   THEN Append(declared,
                               EnvVar("CNPG_STANDBY_TCP_USER_TIMEOUT",
                                      ToString(configuration.standbyTCPUserTimeout)))
                   ELSE declared
    IN [ envVars |-> envVars, envFrom |-> cl.envFrom,
         \* hash.ComputeHash: a function of the ordered entries and sources
         hash |-> <<envVars, cl.envFrom>> ]

\* the entries of a list
Range(seq) == { seq[i] : i \in DOMAIN seq }

\* reflect.DeepEqual on two entries
DeepEqual(e1, e2) == e1 = e2

\* slices.EqualFunc: equal lengths, then the entries compared index by index
RECURSIVE EqualFrom(_, _, _)
EqualFrom(s1, s2, i) ==
    IF i > Len(s1) THEN TRUE
    ELSE IF ~DeepEqual(s1[i], s2[i]) THEN FALSE
    ELSE EqualFrom(s1, s2, i + 1)

EqualFunc(s1, s2) == IF Len(s1) # Len(s2) THEN FALSE ELSE EqualFrom(s1, s2, 1)

\* the comparison that takes each list as a collection, whatever its order
IsEnvEqualAnyOrder(c, container) ==
    /\ Len(container.envFrom) = Len(c.envFrom)
    /\ \A e \in Range(c.envFrom) \cup Range(container.envFrom) :
          Cardinality({i \in DOMAIN c.envFrom : c.envFrom[i] = e}) =
          Cardinality({i \in DOMAIN container.envFrom : container.envFrom[i] = e})
    /\ Len(container.env) = Len(c.envVars)
    /\ \A e \in Range(c.envVars) \cup Range(container.env) :
          Cardinality({i \in DOMAIN c.envVars : c.envVars[i] = e}) =
          Cardinality({i \in DOMAIN container.env : container.env[i] = e})

IsEnvEqual(c, container) ==
    IF ~EqualFunc(container.envFrom, c.envFrom) THEN FALSE
    ELSE EqualFunc(container.env, c.envVars)

----------------------------------------------------------------------------
(* The composed Pod *)

GetInstanceName(clusterName, nodeSerial) == clusterName \o "-" \o ToString(nodeSerial)

createBootstrapContainer(cl) ==
    [ZeroContainer EXCEPT !.name = BootstrapControllerContainerName]

\* the map and slice fields copied from the cluster share its map and its
\* backing array
SharedMap(m) == IF DOMAIN m = {} THEN Nil ELSE Shared(0)
SharedSlice(s) == IF Len(s) = 0 THEN Nil ELSE Shared(Len(s))

\* the Pod spec with the bootstrap container among the main containers
createClusterPodSpecBootstrapFirst(podName, cl, envConfig, enableHTTPS) ==
    [ initContainers |-> Nil,
      containers     |-> Own(<< createBootstrapContainer(cl) >>
                             \o createPostgresContainers(cl, envConfig, enableHTTPS)),
      affinity       |-> CreateAffinitySection(cl.name, cl.affinity),
      tolerations    |-> SharedSlice(cl.tolerations),
      nodeSelector   |-> SharedMap(cl.nodeSelector) ]

createClusterPodSpec(podName, cl, envConfig, enableHTTPS) ==
    [ initContainers |-> Own(<< createBootstrapContainer(cl) >>),
      containers     |-> Own(createPostgresContainers(cl, envConfig, enableHTTPS)),
      affinity       |-> CreateAffinitySection(cl.name, cl.affinity),
      tolerations    |-> SharedSlice(cl.tolerations),
      nodeSelector   |-> SharedMap(cl.nodeSelector) ]

\* lines 504-526 of buildInstance: the Pod before the patch
\* the Pod annotated with the hash of an environment built for the cluster's
\* name instead of the instance's
composeInstanceClusterHash(cl, nodeSerial, tlsEnabled) ==
    LET podName == GetInstanceName(cl.name, nodeSerial)
        envConfig == CreatePodEnvConfig(cl, podName)
    IN [ name |-> podName,
         annotations |-> Own([ k \in {ClusterSerialAnnotationName, PodEnvHashAnnotationName} |->
                                 IF k = ClusterSerialAnnotationName
                                 THEN JStr(ToString(nodeSerial)) ELSE JStr(CreatePodEnvConfig(cl, cl.name).hash) ]) ]
       @@ createClusterPodSpec(podName, cl, envConfig, tlsEnabled)

composeInstance(cl, nodeSerial, tlsEnabled) ==
    LET podName == GetInstanceName(cl.name, nodeSerial)
        envConfig == CreatePodEnvConfig(cl, podName)
    IN [ name |-> podName,
         annotations |-> Own([ k \in {ClusterSerialAnnotationName, PodEnvHashAnnotationName} |->
                                 IF k = ClusterSerialAnnotationName
                                 THEN JStr(ToString(nodeSerial)) ELSE JStr(envConfig.hash) ]) ]
       @@ createClusterPodSpec(podName, cl, envConfig, tlsEnabled)

----------------------------------------------------------------------------
(* The inputs of a NewInstance call *)

UnsetAffinity ==
    [ enablePodAntiAffinity |-> Nil, topologyKey |-> "", podAntiAffinityType |-> "",
      additionalPodAffinity |-> Nil, additionalPodAntiAffinity |-> Nil, nodeAffinity |-> Nil ]

\* a cluster that declares nothing optional
PlainCluster ==
    [ name |-> "c1", namespace |-> "ns", env |-> <<>>, envFrom |-> <<>>,
      podPatch |-> NoPatch, nodeSelector |-> EmptyMap, tolerations |-> <<>>,
      probes |-> Nil, maxStartDelay |-> 3600, livenessProbeTimeout |-> Nil,
      metricsTLS |-> FALSE, logLevel |-> "", affinity |-> UnsetAffinity ]

NodeSelectors == { EmptyMap, [k \in {"k1"} |-> "v1"] }
TolerationLists == SeqsUpTo({"t1"}, MaxTolerations)

NoObjects == [k \in {} |-> Nil]
NotCalled == [calls |-> 0, arg |-> "nil", received |-> Absent, outcome |-> ""]
NoCall == [fn |-> "", args |-> <<>>, result |-> <<>>, done |-> FALSE]

NewInstanceInit ==
    /\ \E patch \in PodPatches, ns \in NodeSelectors, tol \in TolerationLists :
          cluster = [PlainCluster EXCEPT !.podPatch = patch, !.nodeSelector = ns,
                                         !.tolerations = tol]
    /\ given = cluster
    /\ ctx \in [pluginClient : BOOLEAN, nodeSerial : 1..MaxSerial, tlsEnabled : BOOLEAN]
    /\ configuration = [standbyTCPUserTimeout |-> 0, createAnyService |-> FALSE]
    /\ pc = "start"
    /\ objs = NoObjects
    /\ pod = "nil"
    /\ ret = [pod |-> "nil", err |-> ""]
    /\ hook = NotCalled
    /\ trace = <<>>
    /\ call = NoCall

----------------------------------------------------------------------------
(* NewInstance, step by step *)

Returns(p, e) == [pod |-> p, err |-> e]

\* buildInstance, lines 504-538: the composed Pod
BaseBuild ==
    /\ pc = "start"
    /\ objs' = [k \in {"p0"} |-> composeInstance(cluster, ctx.nodeSerial, ctx.tlsEnabled)]
    /\ pod' = "p0"
    /\ pc' = "overlay"
    /\ trace' = Append(trace, "base")
    /\ UNCHANGED <<cluster, given, ctx, ret, hook, configuration, call>>

\* buildInstance, lines 540-560, and NewInstance's return on its error
PatchOverlay ==
    /\ pc = "overlay"
    /\ LET jsonPatch == cluster.podPatch
           serializedObject == MarshalPod(objs[pod], cluster)
           patched == Apply(serializedObject, jsonPatch.ops)
           decoded == Unmarshal(patched.val, objs[pod], cluster)
           fail(e) == /\ ret' = Returns("nil", e)
                      /\ pod' = "nil"
                      /\ pc' = "done"
       IN CASE jsonPatch.text = "" ->
                 /\ pc' = "client"
                 /\ UNCHANGED <<cluster, objs, pod, ret, trace>>
            [] jsonPatch = Malformed ->
                 /\ fail("while decoding JSON patch from annotation")
                 /\ trace' = Append(trace, "patch")
                 /\ UNCHANGED <<cluster, objs>>
            [] jsonPatch.text = "json" /\ ~patched.ok ->
                 /\ fail("while applying JSON patch from annotation")
                 /\ trace' = Append(trace, "patch")
                 /\ UNCHANGED <<cluster, objs>>
            [] jsonPatch.text = "json" /\ patched.ok ->
                 /\ objs' = [objs EXCEPT ![pod] = decoded.pod]
                 /\ cluster' = decoded.cluster
                 /\ trace' = Append(trace, "patch")
                 /\ IF decoded.err
                    THEN fail("while deserializing pod to JSON")
                    ELSE pc' = "client" /\ UNCHANGED <<pod, ret>>
    /\ UNCHANGED <<given, ctx, hook, configuration, call>>

\* the answers of the plugins to the lifecycle hook: the JSON patches they
\* ask to apply to the Pod they received
HookPatches ==
    { <<>>,
      << Op("add", "containers", "-", JObj([name |-> "plugin-sidecar"])) >>,
      << Op("add", "initContainers", "0", JObj([name |-> "plugin-init"])) >>,
      << Op("remove", "annotations", "", Absent) >> }

\* a Pod with nothing set, as a decoder allocates it
ZeroPod ==
    [ name |-> "", annotations |-> Nil, initContainers |-> Nil, containers |-> Nil,
      affinity |-> Nil, nodeSelector |-> Nil, tolerations |-> Nil ]

\* the plugin client looked up after annotating the Pod at once, instead of
\* deferring the annotation
GetPluginClientAnnotatingFirst ==
    /\ pc = "client"
    /\ objs' = IF objs[pod].annotations.tag = "nil" THEN objs
               ELSE [objs EXCEPT ![pod].annotations =
                        Own(WithKey(@.val, PodSpecAnnotationName,
                                    JStr(MarshalSpec(objs[pod], cluster))))]
    /\ IF ~ctx.pluginClient
       THEN /\ ret' = [pod |-> pod, err |-> ""]
            /\ pc' = "deferred"
            /\ UNCHANGED <<hook, trace>>
       ELSE /\ hook' = [hook EXCEPT !.calls = @ + 1, !.arg = pod,
                                    !.received = MarshalPod(objs[pod], cluster)]
            /\ pc' = "hook"
            /\ trace' = Append(trace, "hookCall")
            /\ UNCHANGED ret
    /\ UNCHANGED <<cluster, given, ctx, pod, configuration, call>>

\* NewInstance, lines 468-485: the deferred annotation is registered, the
\* plugin client looked up and, when there is one, the hook called
GetPluginClient ==
    /\ pc = "client"
    /\ IF ~ctx.pluginClient
       THEN /\ ret' = Returns(pod, "")
            /\ pc' = "deferred"
            /\ UNCHANGED <<hook, trace>>
       ELSE /\ hook' = [hook EXCEPT !.calls = @ + 1, !.arg = pod,
                                    !.received = MarshalPod(objs[pod], cluster)]
            /\ pc' = "hook"
            /\ trace' = Append(trace, "hookCall")
            /\ UNCHANGED ret
    /\ UNCHANGED <<cluster, given, ctx, objs, pod, configuration, call>>

\* NewInstance, lines 485-496: the hook call returns
LifecycleHookReturn ==
    /\ pc = "hook"
    /\ \/ \E failure \in {"failed", "cancelled"} :
            /\ hook' = [hook EXCEPT !.outcome = failure]
            /\ ret' = Returns("nil", "while invoking the lifecycle instance evaluation hook")
            /\ UNCHANGED <<objs, pod>>
       \/ /\ hook' = [hook EXCEPT !.outcome = "not a pod"]
          /\ pod' = "nil"
          /\ ret' = Returns("nil", "while casting the clientObject to the pod type")
          /\ UNCHANGED objs
       \/ /\ hook' = [hook EXCEPT !.outcome = "same pod"]
          /\ ret' = Returns(pod, "")
          /\ UNCHANGED <<objs, pod>>
       \/ \E edit \in HookPatches :
            LET answer == Apply(hook.received, edit) IN
            /\ answer.ok
            /\ hook' = [hook EXCEPT !.outcome = "new pod"]
            /\ objs' = [k \in {"p0", "p1"} |->
                          IF k = "p1" THEN Unmarshal(answer.val, ZeroPod, cluster).pod
                          ELSE objs[k]]
            /\ pod' = "p1"
            /\ ret' = Returns("p1", "")
    /\ pc' = "deferred"
    /\ trace' = Append(trace, "hookReturn")
    /\ UNCHANGED <<cluster, given, ctx, configuration, call>>

\* NewInstance, lines 468-475: the deferred function, run as NewInstance
\* returns; a write to a nil map panics
Deferred ==
    /\ pc = "deferred"
    /\ CASE pod = "nil" ->
              /\ pc' = "done"
              /\ UNCHANGED <<objs, trace>>
         [] pod # "nil" /\ objs[pod].annotations.tag = "nil" ->
              /\ pc' = "panic"
              /\ UNCHANGED <<objs, trace>>
         [] OTHER ->
              /\ objs' = [objs EXCEPT ![pod].annotations =
                            Own(WithKey(@.val, PodSpecAnnotationName,
                                        JStr(MarshalSpec(objs[pod], cluster))))]
              /\ pc' = "done"
              /\ trace' = Append(trace, "annotate")
    /\ UNCHANGED <<cluster, given, ctx, pod, ret, hook, configuration, call>>

NewInstance ==
    \/ BaseBuild
    \/ PatchOverlay
    \/ GetPluginClient
    \/ LifecycleHookReturn
    \/ Deferred

Spec == NewInstanceInit /\ [][NewInstance]_vars

----------------------------------------------------------------------------
(* Properties of NewInstance *)

\* NewInstance has ended, by returning or by panicking
Ended == pc \in {"done", "panic"}
\* NewInstance reached a `return pod, nil`
ReachedSuccess == Ended /\ ret.err = ""
\* a stage of the pipeline failed
StageFailed == Ended /\ ret.err # ""

HasResolvedSpec(p) ==
    p.annotations.tag # "nil" /\ PodSpecAnnotationName \in DOMAIN p.annotations.val

\* the Pod the base build composes from the cluster as given
Composed == composeInstance(given, ctx.nodeSerial, ctx.tlsEnabled)
\* the document the patch is applied to, and the result of applying it
ComposedPatched == Apply(MarshalPod(Composed, given), given.podPatch.ops)
\* what the patch overlay is to produce from the cluster as given
Overlaid == Unmarshal(ComposedPatched.val, Composed, given)
OverlaySucceeds ==
    given.podPatch # Malformed /\ ComposedPatched.ok /\ ~Overlaid.err

\* C1: on every path that reaches `return pod, nil` (no plugin client, or a
\* hook that returned a Pod, with or without annotations), NewInstance
\* returns a Pod whose resolved-spec annotation is the serialization of the
\* returned Pod's own Spec
C1_ResolvedSpecOnEverySuccess ==
    ReachedSuccess =>
        /\ pc = "done"
        /\ ret.pod # "nil"
        /\ HasResolvedSpec(objs[ret.pod])
        /\ objs[ret.pod].annotations.val[PodSpecAnnotationName]
              = JStr(MarshalSpec(objs[ret.pod], cluster))

\* C2: when the hook call fails or is cancelled, no Pod object carries the
\* resolved-spec annotation and no Pod is returned
C2_NoAnnotationAfterHookFailure ==
    (Ended /\ hook.outcome \in {"failed", "cancelled"}) =>
        /\ ret.pod = "nil"
        /\ \A k \in DOMAIN objs : ~HasResolvedSpec(objs[k])

\* C3: every failed stage makes NewInstance return an error and no Pod
C3_FailureReturnsErrorAndNil ==
    StageFailed => pc = "done" /\ ret.pod = "nil"


\* the order of the pipeline's steps
Rank(step) ==
    CASE step = "base" -> 1 [] step = "patch" -> 2 [] step = "hookCall" -> 3
      [] step = "hookReturn" -> 4 [] OTHER -> 5

\* C4: the steps run in the order base build, patch overlay, lifecycle
\* hook, self-annotation, each at most once; the hook is called only after
\* a successful patch overlay, with the Pod the overlay produced; the
\* annotation is written only once the hook has returned
C4_StepsInOrder ==
    /\ \A i, j \in DOMAIN trace : i < j => Rank(trace[i]) < Rank(trace[j])
    /\ hook.calls <= 1
    /\ hook.calls > 0 =>
          /\ OverlaySucceeds
          /\ hook.arg = "p0"
          /\ hook.received = MarshalPod(Overlaid.pod, Overlaid.cluster)
    /\ (\E k \in DOMAIN objs : HasResolvedSpec(objs[k])) =>
          /\ pc = "done"
          /\ hook.calls > 0 => hook.outcome # ""

\* C4 witness: a call that went through a patch, the hook and the annotation
C4_Witness ==
    /\ pc = "done"
    /\ trace = <<"base", "patch", "hookCall", "hookReturn", "annotate">>
    /\ hook.outcome = "new pod"
    /\ given.podPatch.ops # <<>>

\* C5: without a plugin client NewInstance succeeds, calls no hook, and
\* returns the Pod of the patch overlay plus the resolved-spec annotation
C5_NoClientIsNoOp ==
    (Ended /\ ~ctx.pluginClient /\ OverlaySucceeds) =>
        /\ pc = "done"
        /\ ret = Returns("p0", "")
        /\ hook.calls = 0
        /\ objs[ret.pod] =
              [Overlaid.pod EXCEPT !.annotations =
                  Own(WithKey(OwnMap(@), PodSpecAnnotationName,
                              JStr(MarshalSpec(Overlaid.pod, Overlaid.cluster))))]

\* C6: the caller's cluster description is never changed by the call
C6_ClusterUnchanged == cluster = given

\* an Instance Specification with exactly one init container, the bootstrap
\* container, and the database container first among the main containers
WellShaped(p) ==
    /\ Len(OwnSeq(p.initContainers)) = 1
    /\ OwnSeq(p.initContainers)[1].name = BootstrapControllerContainerName
    /\ Len(OwnSeq(p.containers)) >= 1
    /\ OwnSeq(p.containers)[1].name = PostgresContainerName

\* C7 as stated: every Pod a successful synthesis returns is well shaped
C7_ReturnedPodWellShaped ==
    (pc = "done" /\ ret.err = "") => WellShaped(objs[ret.pod])

\* C7 as amended: the Pod of the base build is well shaped, and so is the
\* Pod a synthesis returns when there is neither a patch nor a plugin client
C7_ComposedPodWellShaped ==
    /\ pc = "overlay" => WellShaped(objs[pod])
    /\ (pc = "done" /\ ret.err = "" /\ given.podPatch = NoPatch /\ ~ctx.pluginClient)
          => WellShaped(objs[ret.pod])

C7_Witness ==
    /\ pc = "done" /\ ret = Returns("p0", "")
    /\ given.podPatch = NoPatch /\ ~ctx.pluginClient
    /\ HasResolvedSpec(objs["p0"])


\* the environment rebuilt from the cluster as given and the instance name
RebuiltEnvConfig == CreatePodEnvConfig(given, GetInstanceName(given.name, ctx.nodeSerial))

\* the rebuilt environment matches the first main container of a Pod, and
\* the Pod's environment hash annotation is the rebuilt environment's hash
EnvConsistent(p) ==
    /\ Len(OwnSeq(p.containers)) >= 1
    /\ IsEnvEqual(RebuiltEnvConfig, OwnSeq(p.containers)[1])
    /\ p.annotations.tag # "nil"
    /\ PodEnvHashAnnotationName \in DOMAIN p.annotations.val
    /\ p.annotations.val[PodEnvHashAnnotationName] = JStr(RebuiltEnvConfig.hash)

\* C17 as stated: for every Pod a successful synthesis returns, the
\* environment rebuilt by CreatePodEnvConfig from the same cluster and
\* instance name reports IsEnvEqual against the Pod's first main container,
\* and the Pod's environment hash annotation is that environment's hash
C17_ReturnedEnvConsistent ==
    (pc = "done" /\ ret.err = "") => EnvConsistent(objs[ret.pod])

\* C17 as amended: the Pod of the base build is consistent with the rebuilt
\* environment, and so is the Pod a synthesis returns when there is neither
\* a patch nor a plugin client
C17_ComposedEnvConsistent ==
    /\ pc = "overlay" => EnvConsistent(objs[pod])
    /\ (pc = "done" /\ ret.err = "" /\ given.podPatch = NoPatch /\ ~ctx.pluginClient)
          => EnvConsistent(objs[ret.pod])

\* C17 witness: a Pod returned with neither patch nor plugin client, whose
\* database container carries the instance's name in its environment
C17_Witness ==
    /\ pc = "done" /\ ret = Returns("p0", "")
    /\ given.podPatch = NoPatch /\ ~ctx.pluginClient
    /\ Len(OwnSeq(objs["p0"].containers)) = 1
    /\ OwnSeq(objs["p0"].containers)[1].env[2] =
          EnvVar("POD_NAME", GetInstanceName(given.name, ctx.nodeSerial))
    /\ IsEnvEqual(RebuiltEnvConfig, OwnSeq(objs["p0"].containers)[1])

\* C18: after a successful patch overlay the Pod equals the deserialization
\* of the patched document and nothing else: every field, map entry and list
\* element the patch removed is absent, and no value from before the patch
\* survives where the patched document no longer holds it
C18_PatchedDocumentOnly ==
    (pc = "client" /\ given.podPatch.text = "json") =>
        MarshalPod(objs[pod], cluster) =
           MarshalPod(Unmarshal(ComposedPatched.val, ZeroPod, given).pod, given)

----------------------------------------------------------------------------
(* Calls of the pure functions, each from inputs drawn at the start *)

\* no NewInstance call is under way
IdlePipeline ==
    /\ cluster = PlainCluster
    /\ given = PlainCluster
    /\ ctx = [pluginClient |-> FALSE, nodeSerial |-> 1, tlsEnabled |-> FALSE]
    /\ pc = "idle"
    /\ objs = NoObjects
    /\ pod = "nil"
    /\ ret = Returns("nil", "")
    /\ hook = NotCalled
    /\ trace = <<>>

Idle ==
    /\ IdlePipeline
    /\ configuration = [standbyTCPUserTimeout |-> 0, createAnyService |-> FALSE]

Calling(fn, args, zero) == [fn |-> fn, args |-> args, result |-> zero, done |-> FALSE]

\* largest delay and period getFailureThreshold is called with
MaxDelay == 32
MaxPeriod == 11

ThresholdInit ==
    /\ Idle
    /\ \E delay \in -1..MaxDelay, period \in 1..MaxPeriod :
          call = Calling("getFailureThreshold", <<delay, period>>, 0)

GetFailureThresholdCall ==
    /\ call.fn = "getFailureThreshold" /\ ~call.done
    /\ call' = [call EXCEPT !.result = getFailureThreshold(call.args[1], call.args[2]),
                            !.done = TRUE]
    /\ UNCHANGED <<pipelineVars, configuration>>

SpecThreshold == ThresholdInit /\ [][GetFailureThresholdCall]_vars

\* C8: getFailureThreshold returns 1 when delay <= period and otherwise the
\* ceiling of delay/period, the only k with k * period >= delay and
\* (k - 1) * period < delay; so the result is at least 1 and result * period
\* covers the delay
C8_ThresholdIsCeiling ==
    (call.fn = "getFailureThreshold" /\ call.done) =>
        LET delay == call.args[1]
            period == call.args[2]
            r == call.result
        IN /\ delay <= period => r = 1
           /\ delay > period => r * period >= delay /\ (r - 1) * period < delay
           /\ r >= 1
           /\ r * period >= delay
           /\ r > 1 => (r - 1) * period < delay
           /\ (delay = 30 /\ period = 10) => r = 3
           /\ (delay = 20 /\ period = 10) => r = 2
           /\ (delay = 5 /\ period = 10) => r = 1
           /\ (delay = 10 /\ period = 10) => r = 1
           /\ (delay = 31 /\ period = 10) => r = 4

C8_Witness ==
    call.fn = "getFailureThreshold" /\ call.done /\ call.args = <<31, 10>> /\ call.result = 4

----------------------------------------------------------------------------
(* createPostgresContainers on clusters with probe overrides *)

\* a probe override of the cluster: zero fields are unset
Override(period, threshold) ==
    [ tag |-> "ptr", periodSeconds |-> period, timeoutSeconds |-> 0,
      failureThreshold |-> threshold ]
ProbeOverrides == {Nil} \cup { Override(p, t) : p \in {0, 3}, t \in {0, 7} }
ProbesConfigurations ==
    {Nil} \cup [ tag : {"ptr"}, startup : ProbeOverrides, liveness : ProbeOverrides,
                 readiness : ProbeOverrides ]
MaxStartDelays == {5, 31}
LivenessProbeTimeouts == {Nil, [tag |-> "ptr", val |-> 25]}

ProbesInit ==
    /\ Idle
    /\ \E probes \in ProbesConfigurations, delay \in MaxStartDelays,
          timeout \in LivenessProbeTimeouts, metricsTLS \in BOOLEAN, enableHTTPS \in BOOLEAN,
          logLevel \in {"", "debug"} :
          call = Calling("createPostgresContainers",
                         [ cluster |-> [PlainCluster EXCEPT !.probes = probes,
                                                            !.maxStartDelay = delay,
                                                            !.livenessProbeTimeout = timeout,
                                                            !.metricsTLS = metricsTLS,
                                                            !.logLevel = logLevel],
                           enableHTTPS |-> enableHTTPS ],
                         <<>>)

CreatePostgresContainersCall ==
    /\ call.fn = "createPostgresContainers" /\ ~call.done
    /\ call' = [call EXCEPT
                  !.result = createPostgresContainers(
                                 call.args.cluster,
                                 CreatePodEnvConfig(call.args.cluster, "c1-1"),
                                 call.args.enableHTTPS),
                  !.done = TRUE]
    /\ UNCHANGED <<pipelineVars, configuration>>

SpecProbes == ProbesInit /\ [][CreatePostgresContainersCall]_vars

\* what the cluster's override sets for a probe kind: 0 when it sets nothing
Overridden(cl, kind, field) ==
    IF cl.probes.tag = "nil" \/ cl.probes[kind].tag = "nil" THEN 0
    ELSE cl.probes[kind][field]
\* a probe's period once the override is merged
MergedPeriod(cl, kind, default) ==
    IF Overridden(cl, kind, "periodSeconds") # 0 THEN Overridden(cl, kind, "periodSeconds")
    ELSE default

\* C9: thresholds are resolved after the overrides are merged and never
\* replace one: startup from the maximum start delay and the merged period
\* when the merged threshold is zero; liveness from the liveness timeout and
\* the merged period when a timeout is configured and the merged threshold
\* is zero, else as merged; readiness never computed
C9_ThresholdsAfterOverrides ==
    (call.fn = "createPostgresContainers" /\ call.done) =>
        LET cl == call.args.cluster
            c == call.result[1]
            startup == Overridden(cl, "startup", "failureThreshold")
            liveness == Overridden(cl, "liveness", "failureThreshold")
        IN /\ c.startupProbe.periodSeconds = MergedPeriod(cl, "startup", StartupProbePeriod)
           /\ c.livenessProbe.periodSeconds = MergedPeriod(cl, "liveness", LivenessProbePeriod)
           /\ c.startupProbe.failureThreshold =
                 IF startup # 0 THEN startup
                 ELSE getFailureThreshold(cl.maxStartDelay,
                                          MergedPeriod(cl, "startup", StartupProbePeriod))
           /\ c.livenessProbe.failureThreshold =
                 IF liveness = 0 /\ cl.livenessProbeTimeout.tag # "nil"
                 THEN getFailureThreshold(cl.livenessProbeTimeout.val,
                                          MergedPeriod(cl, "liveness", LivenessProbePeriod))
                 ELSE liveness
           /\ c.readinessProbe.failureThreshold = Overridden(cl, "readiness", "failureThreshold")

\* C9 witness: a startup override that sets only the period, and a liveness
\* override that sets the threshold while a liveness timeout is configured
C9_Witness ==
    /\ call.fn = "createPostgresContainers" /\ call.done
    /\ call.args.cluster.maxStartDelay = 31
    /\ call.args.cluster.probes.tag # "nil"
    /\ call.args.cluster.probes.startup = Override(3, 0)
    /\ call.args.cluster.probes.liveness = Override(0, 7)
    /\ call.args.cluster.livenessProbeTimeout.tag # "nil"
    /\ call.result[1].startupProbe.failureThreshold = 11
    /\ call.result[1].livenessProbe.failureThreshold = 7

----------------------------------------------------------------------------
(* CreateAffinitySection on every affinity configuration *)

\* longest list of required, and of preferred, terms the user declares
MaxUserTerms == 2

UserTerm(app) ==
    [ labelSelector |-> << Requirement("app", app) >>, topologyKey |-> "topology.kubernetes.io/zone" ]
UserTerms == { UserTerm("web"), UserTerm("cache") }
UserWeightedTerms == { [weight |-> 50, podAffinityTerm |-> t] : t \in UserTerms }

AffinityConfigurations ==
    [ enablePodAntiAffinity : {Nil, Ptr(TRUE), Ptr(FALSE)},
      topologyKey : {"", "topology.kubernetes.io/zone"},
      podAntiAffinityType : {"", PodAntiAffinityTypeRequired, PodAntiAffinityTypePreferred},
      additionalPodAffinity : {Nil, Ptr("user pod affinity")},
      additionalPodAntiAffinity :
          {Nil} \cup { PodAntiAffinity(r, w) : r \in SeqsUpTo(UserTerms, MaxUserTerms),
                                               w \in SeqsUpTo(UserWeightedTerms, MaxUserTerms) },
      nodeAffinity : {Nil, Ptr("user node affinity")} ]

AffinityInit ==
    /\ Idle
    /\ \E clusterName \in {"c1", "c2"}, config \in AffinityConfigurations :
          call = Calling("CreateAffinitySection",
                         [clusterName |-> clusterName, config |-> config], Nil)

CreateAffinitySectionCall ==
    /\ call.fn = "CreateAffinitySection" /\ ~call.done
    /\ call' = [call EXCEPT
                  !.result = CreateAffinitySection(call.args.clusterName, call.args.config),
                  !.done = TRUE]
    /\ UNCHANGED <<pipelineVars, configuration>>

SpecAffinity == AffinityInit /\ [][CreateAffinitySectionCall]_vars

NoExtensions(config) ==
    /\ config.additionalPodAffinity = Nil
    /\ config.additionalPodAntiAffinity = Nil
    /\ config.nodeAffinity = Nil

Disabled(config) == config.enablePodAntiAffinity = Ptr(FALSE)

\* the term that selects the instances of the cluster
ExpectedTerm(clusterName, config) ==
    [ labelSelector |->
        << [key |-> "cnpg.io/cluster", operator |-> "In", values |-> <<clusterName>>],
           [key |-> "cnpg.io/podRole", operator |-> "In", values |-> <<"instance">>] >>,
      topologyKey |-> IF config.topologyKey = "" THEN "kubernetes.io/hostname"
                      ELSE config.topologyKey ]

\* C10: with no user extensions, mode required gives exactly one required
\* term and no preferred one, mode preferred exactly one preferred term of
\* weight 100 and no required one, the term selecting the cluster's
\* instances on the declared or default topology key; disabled anti-affinity
\* gives no affinity at all, whatever the mode
C10_GeneratedAntiAffinity ==
    (call.fn = "CreateAffinitySection" /\ call.done /\ NoExtensions(call.args.config)) =>
        LET config == call.args.config
            term == ExpectedTerm(call.args.clusterName, config)
            a == call.result
        IN /\ Disabled(config) => a = Nil
           /\ (~Disabled(config) /\ config.podAntiAffinityType = "required") =>
                 /\ a.tag = "ptr"
                 /\ a.val.podAffinity = Nil /\ a.val.nodeAffinity = Nil
                 /\ a.val.podAntiAffinity.tag = "ptr"
                 /\ a.val.podAntiAffinity.val.required = <<term>>
                 /\ a.val.podAntiAffinity.val.preferred = <<>>
           /\ (~Disabled(config) /\ config.podAntiAffinityType = "preferred") =>
                 /\ a.tag = "ptr"
                 /\ a.val.podAffinity = Nil /\ a.val.nodeAffinity = Nil
                 /\ a.val.podAntiAffinity.tag = "ptr"
                 /\ a.val.podAntiAffinity.val.required = <<>>
                 /\ a.val.podAntiAffinity.val.preferred =
                       << [weight |-> 100, podAffinityTerm |-> term] >>

\* C10 witness: a preferred term generated on a declared topology key
C10_Witness ==
    /\ call.fn = "CreateAffinitySection" /\ call.done /\ NoExtensions(call.args.config)
    /\ call.args.config.podAntiAffinityType = "preferred"
    /\ call.args.config.topologyKey = "topology.kubernetes.io/zone"
    /\ call.args.config.enablePodAntiAffinity = Nil
    /\ call.result.tag = "ptr"
    /\ Len(call.result.val.podAntiAffinity.val.preferred) = 1

\* C11: when anti-affinity is not disabled and the mode is left unspecified,
\* the generated step treats the mode as preferred: with no user extensions
\* the result carries exactly one preferred term of weight 100 selecting the
\* cluster's instances, and no required term
C11_UnspecifiedModeIsPreferred ==
    (/\ call.fn = "CreateAffinitySection" /\ call.done
     /\ NoExtensions(call.args.config)
     /\ ~Disabled(call.args.config)
     /\ call.args.config.podAntiAffinityType = "") =>
        /\ call.result.tag = "ptr"
        /\ call.result.val.podAntiAffinity.tag = "ptr"
        /\ call.result.val.podAntiAffinity.val.required = <<>>
        /\ call.result.val.podAntiAffinity.val.preferred =
              << [ weight |-> 100,
                   podAffinityTerm |-> ExpectedTerm(call.args.clusterName, call.args.config) ] >>

\* the term lists the generated step hands to the merge
GeneratedTerms(clusterName, config) ==
    LET generated == CreateGeneratedAntiAffinity(clusterName, config)
    IN IF generated = Nil THEN [required |-> <<>>, preferred |-> <<>>]
       ELSE generated.val.podAntiAffinity.val

\* C12: merging the user's extensions never drops or reorders the generated
\* terms: when additional anti-affinity is declared, the final required list
\* is the generated required list followed by the user's required terms in
\* their order, and likewise the preferred list; declared additional pod
\* affinity becomes the pod-affinity field and declared node affinity the
\* node-affinity field, and these two leave the anti-affinity lists as the
\* generated step made them
C12_MergeAppendsUserTerms ==
    (call.fn = "CreateAffinitySection" /\ call.done /\ ~NoExtensions(call.args.config)) =>
        LET config == call.args.config
            generated == CreateGeneratedAntiAffinity(call.args.clusterName, config)
            terms == GeneratedTerms(call.args.clusterName, config)
            user == config.additionalPodAntiAffinity
        IN /\ call.result.tag = "ptr"
           /\ user # Nil =>
                 /\ call.result.val.podAntiAffinity.tag = "ptr"
                 /\ call.result.val.podAntiAffinity.val.required =
                       terms.required \o user.val.required
                 /\ call.result.val.podAntiAffinity.val.preferred =
                       terms.preferred \o user.val.preferred
           /\ user = Nil =>
                 call.result.val.podAntiAffinity =
                    (IF generated = Nil THEN Nil ELSE generated.val.podAntiAffinity)
           /\ call.result.val.podAffinity = config.additionalPodAffinity
           /\ call.result.val.nodeAffinity = config.nodeAffinity

\* C12 witness: a generated required term followed by two different user
\* terms in the user's order, next to a generated-free preferred list and a
\* declared pod affinity
C12_Witness ==
    /\ call.fn = "CreateAffinitySection" /\ call.done
    /\ call.args.config.podAntiAffinityType = "required"
    /\ call.args.config.enablePodAntiAffinity = Ptr(TRUE)
    /\ call.args.config.additionalPodAffinity # Nil
    /\ call.args.config.additionalPodAntiAffinity # Nil
    /\ call.args.config.additionalPodAntiAffinity.val.required =
          << UserTerm("web"), UserTerm("cache") >>
    /\ call.result.val.podAntiAffinity.val.required =
          << ExpectedTerm(call.args.clusterName, call.args.config),
             UserTerm("web"), UserTerm("cache") >>
    /\ Len(call.result.val.podAntiAffinity.val.preferred) = 1

\* an affinity that carries something: pod affinity, node affinity, or at
\* least one required or preferred anti-affinity term
NotVacuous(a) ==
    \/ a.podAffinity # Nil
    \/ a.nodeAffinity # Nil
    \/ /\ a.podAntiAffinity # Nil
       /\ \/ Len(a.podAntiAffinity.val.required) >= 1
          \/ Len(a.podAntiAffinity.val.preferred) >= 1

\* C13: CreateAffinitySection never returns a vacuous affinity: the result is
\* nil or it carries pod affinity, node affinity, or at least one required or
\* preferred anti-affinity term; and it is nil whenever the generated step
\* produced nothing and no extension is declared
C13_NeverVacuous ==
    (call.fn = "CreateAffinitySection" /\ call.done) =>
        /\ call.result = Nil \/ NotVacuous(call.result.val)
        /\ (/\ CreateGeneratedAntiAffinity(call.args.clusterName, call.args.config) = Nil
            /\ NoExtensions(call.args.config)) => call.result = Nil

\* how many times a flag occurs in a command
RECURSIVE Occurrences(_, _)
Occurrences(command, flag) ==
    IF command = <<>> THEN 0
    ELSE (IF Head(command) = flag THEN 1 ELSE 0) + Occurrences(Tail(command), flag)

\* C14: the two TLS toggles are independent and each adds its flag exactly
\* once: all three probes use HTTPS exactly when the instance's secure
\* transport is enabled and HTTP otherwise; the command holds
\* "--status-port-tls" once when it is enabled and not at all otherwise, and
\* "--metrics-port-tls" once when metrics TLS is enabled and not at all
\* otherwise, in all four combinations; the base command
\* "/controller/manager instance run" stays the prefix of the command
C14_TLSTogglesIndependent ==
    (call.fn = "createPostgresContainers" /\ call.done) =>
        LET c == call.result[1]
            scheme == IF call.args.enableHTTPS THEN "HTTPS" ELSE "HTTP"
        IN /\ c.startupProbe.scheme = scheme
           /\ c.livenessProbe.scheme = scheme
           /\ c.readinessProbe.scheme = scheme
           /\ Occurrences(c.command, "--status-port-tls") =
                 (IF call.args.enableHTTPS THEN 1 ELSE 0)
           /\ Occurrences(c.command, "--metrics-port-tls") =
                 (IF call.args.cluster.metricsTLS THEN 1 ELSE 0)
           /\ Len(c.command) >= 3
           /\ SubSeq(c.command, 1, 3) = <<"/controller/manager", "instance", "run">>

\* C14 witness: metrics TLS without the instance's secure transport, with
\* probe overrides and a logging option in play
C14_Witness ==
    /\ call.fn = "createPostgresContainers" /\ call.done
    /\ ~call.args.enableHTTPS /\ call.args.cluster.metricsTLS
    /\ call.args.cluster.probes.tag # "nil"
    /\ call.args.cluster.logLevel = "debug"
    /\ call.result[1].readinessProbe.scheme = "HTTP"
    /\ call.result[1].command =
          <<"/controller/manager", "instance", "run", "--metrics-port-tls", "--log-level=debug">>

----------------------------------------------------------------------------
(* CreatePodEnvConfig and IsEnvEqual on every environment *)

\* longest list of environment entries, and of environment sources
MaxEnv == 2

\* entries and sources a cluster declares
UserEnv == { EnvVar("TZ", "UTC"), EnvVar("LANG", "C") }
EnvSources == { "configmap-a", "secret-b" }
StandbyTimeouts == {0, 5}

EnvInit ==
    /\ IdlePipeline
    /\ \E timeout \in StandbyTimeouts :
          configuration = [standbyTCPUserTimeout |-> timeout, createAnyService |-> FALSE]
    /\ \E name \in {"c1", "c2"}, podName \in {"c1-1", "c2-2"},
          env \in SeqsUpTo(UserEnv, MaxEnv), envFrom \in SeqsUpTo(EnvSources, MaxEnv) :
          call = Calling("CreatePodEnvConfig",
                         [ cluster |-> [PlainCluster EXCEPT !.name = name, !.env = env,
                                                            !.envFrom = envFrom],
                           podName |-> podName ],
                         <<>>)

CreatePodEnvConfigCall ==
    /\ call.fn = "CreatePodEnvConfig" /\ ~call.done
    /\ call' = [call EXCEPT
                  !.result = CreatePodEnvConfig(call.args.cluster, call.args.podName),
                  !.done = TRUE]
    /\ UNCHANGED <<pipelineVars, configuration>>

SpecEnv == EnvInit /\ [][CreatePodEnvConfigCall]_vars

\* the names of the baseline entries, in their order
BaselineNames ==
    << "PGDATA", "POD_NAME", "NAMESPACE", "CLUSTER_NAME",
       "PSQL_HISTORY", "PGPORT", "PGHOST", "TMPDIR" >>

\* C15: CreatePodEnvConfig returns exactly the eight baseline entries in the
\* order PGDATA, POD_NAME, NAMESPACE, CLUSTER_NAME, PSQL_HISTORY, PGPORT,
\* PGHOST, TMPDIR, then the cluster's declared entries in their order, then
\* the standby timeout entry exactly when the configured standby timeout is
\* not zero, always last; its sources are the cluster's declared sources in
\* their order
C15_EnvironmentLayout ==
    (call.fn = "CreatePodEnvConfig" /\ call.done) =>
        LET cl == call.args.cluster
            envVars == call.result.envVars
            n == Len(cl.env)
            timeout == configuration.standbyTCPUserTimeout
        IN /\ Len(envVars) = 8 + n + (IF timeout # 0 THEN 1 ELSE 0)
           /\ \A i \in 1..8 : envVars[i].name = BaselineNames[i]
           /\ envVars[2].value = call.args.podName
           /\ envVars[3].value = cl.namespace
           /\ envVars[4].value = cl.name
           /\ \A i \in 1..n : envVars[8 + i] = cl.env[i]
           /\ timeout # 0 =>
                 envVars[Len(envVars)] =
                    [name |-> "CNPG_STANDBY_TCP_USER_TIMEOUT", value |-> ToString(timeout)]
           /\ timeout = 0 =>
                 \A i \in 1..Len(envVars) : envVars[i].name # "CNPG_STANDBY_TCP_USER_TIMEOUT"
           /\ call.result.envFrom = cl.envFrom

\* C15 witness: two declared entries between the baseline and the standby
\* timeout entry, and two declared sources
C15_Witness ==
    /\ call.fn = "CreatePodEnvConfig" /\ call.done
    /\ configuration.standbyTCPUserTimeout = 5
    /\ call.args.cluster.env = << EnvVar("LANG", "C"), EnvVar("TZ", "UTC") >>
    /\ Len(call.result.envVars) = 11
    /\ call.result.envVars[9].name = "LANG"
    /\ call.result.envVars[11].name = "CNPG_STANDBY_TCP_USER_TIMEOUT"
    /\ call.result.envFrom = << "secret-b", "configmap-a" >>

EnvEqualInit ==
    /\ Idle
    /\ \E envVars \in SeqsUpTo(UserEnv, MaxEnv), envFrom \in SeqsUpTo(EnvSources, MaxEnv),
          env \in SeqsUpTo(UserEnv, MaxEnv), from \in SeqsUpTo(EnvSources, MaxEnv) :
          call = Calling("IsEnvEqual",
                         [ c |-> [envVars |-> envVars, envFrom |-> envFrom],
                           container |-> [env |-> env, envFrom |-> from] ],
                         "none")

IsEnvEqualCall ==
    /\ call.fn = "IsEnvEqual" /\ ~call.done
    /\ call' = [call EXCEPT
                  !.result = IF IsEnvEqual(call.args.c, call.args.container)
                             THEN "equal" ELSE "unequal",
                  !.done = TRUE]
    /\ UNCHANGED <<pipelineVars, configuration>>

SpecEnvEqual == EnvEqualInit /\ [][IsEnvEqualCall]_vars

\* two lists of the same length whose entries agree at every position
SameSequence(s1, s2) ==
    /\ Len(s1) = Len(s2)
    /\ \A i \in 1..Len(s1) : s1[i] = s2[i]

\* a list that holds the entries of another in some order
IsReordering(s1, s2) ==
    /\ Len(s1) = Len(s2)
    /\ \E f \in [1..Len(s1) -> 1..Len(s1)] :
          /\ \A i, j \in 1..Len(s1) : f[i] = f[j] => i = j
          /\ \A i \in 1..Len(s1) : s1[i] = s2[f[i]]

\* C16: IsEnvEqual is sequence equality, sensitive to order, on the source
\* list and on the entry list: it reports equal exactly when the container's
\* sources and the EnvConfig's have the same length and agree position by
\* position, and the same holds of the entries; a reordering of either list
\* that changes the sequence is reported unequal
C16_OrderSensitiveEquality ==
    (call.fn = "IsEnvEqual" /\ call.done) =>
        LET c == call.args.c
            container == call.args.container
        IN /\ (call.result = "equal") <=>
                 (/\ SameSequence(container.envFrom, c.envFrom)
                  /\ SameSequence(container.env, c.envVars))
           /\ (/\ IsReordering(container.env, c.envVars)
               /\ IsReordering(container.envFrom, c.envFrom)
               /\ \/ container.env # c.envVars
                  \/ container.envFrom # c.envFrom) => call.result = "unequal"

\* C16 witness: the same two entries in the other order, under equal sources
C16_Witness ==
    /\ call.fn = "IsEnvEqual" /\ call.done
    /\ call.args.c.envVars = << EnvVar("TZ", "UTC"), EnvVar("LANG", "C") >>
    /\ call.args.container.env = << EnvVar("LANG", "C"), EnvVar("TZ", "UTC") >>
    /\ call.args.c.envFrom = call.args.container.envFrom
    /\ call.result = "unequal"

----------------------------------------------------------------------------
(* The event filter of the node watch (ClusterReconciler.nodesPredicate) *)

\* longest list of taints on a node
MaxTaints == 2

Taint(k, v, e) == [key |-> k, value |-> v, effect |-> e]

UnschedulableTaintKey == "node.kubernetes.io/unschedulable"
OtherTaintKey == "example.com/dedicated"

\* the taints a node may carry
Taints ==
    { Taint(UnschedulableTaintKey, "", "NoSchedule"),
      Taint(UnschedulableTaintKey, "", "NoExecute"),
      Taint(UnschedulableTaintKey, "x", "NoSchedule"),
      Taint(OtherTaintKey, "", "NoSchedule") }

\* the objects an event may carry: nodes, and an object of another type
NotANode == [isNode |-> FALSE, unschedulable |-> FALSE, taints |-> <<>>]
Nodes ==
    [ isNode : {TRUE}, unschedulable : BOOLEAN, taints : SeqsUpTo(Taints, MaxTaints) ]
EventObjects == Nodes \cup {NotANode}

\* the lists of watched drain taint keys of the reconciler
DrainTaints ==
    { <<>>, <<UnschedulableTaintKey>>, <<OtherTaintKey, UnschedulableTaintKey>> }

\* slices.IndexFunc with the key test: the first index of a taint with the
\* key, -1 when there is none
RECURSIVE IndexFrom(_, _, _)
IndexFrom(taints, key, i) ==
    IF i > Len(taints) THEN -1
    ELSE IF taints[i].key = key THEN i
    ELSE IndexFrom(taints, key, i + 1)

IndexFunc(taints, key) == IndexFrom(taints, key, 1)

\* the loop over the watched drain taints
RECURSIVE DrainTaintChanged(_, _, _)
DrainTaintChanged(drainTaints, oldNode, newNode) ==
    IF drainTaints = <<>> THEN FALSE
    ELSE LET taint == Head(drainTaints)
             oldTaintIndex == IndexFunc(oldNode.taints, taint)
             newTaintIndex == IndexFunc(newNode.taints, taint)
         IN CASE oldTaintIndex = -1 /\ newTaintIndex = -1 ->
                    DrainTaintChanged(Tail(drainTaints), oldNode, newNode)
              [] (oldTaintIndex = -1) # (newTaintIndex = -1) -> TRUE
              [] OTHER ->
                    LET oldTaint == oldNode.taints[oldTaintIndex]
                        newTaint == newNode.taints[newTaintIndex]
                    IN IF oldTaint.value # newTaint.value \/ oldTaint.effect # newTaint.effect
                       THEN TRUE
                       ELSE DrainTaintChanged(Tail(drainTaints), oldNode, newNode)

UpdateFunc(drainTaints, e) ==
    IF ~e.objectOld.isNode \/ ~e.objectNew.isNode THEN FALSE
    ELSE IF e.objectOld.unschedulable # e.objectNew.unschedulable THEN TRUE
    ELSE DrainTaintChanged(drainTaints, e.objectOld, e.objectNew)

CreateFunc(e) == FALSE
DeleteFunc(e) == FALSE
GenericFunc(e) == FALSE

NodeEvents ==
    [ kind : {"update"}, objectOld : EventObjects, objectNew : EventObjects ]
    \cup [ kind : {"create", "delete", "generic"}, objectOld : {NotANode},
           objectNew : EventObjects ]

NodesInit ==
    /\ Idle
    /\ \E drainTaints \in DrainTaints, e \in NodeEvents :
          call = Calling("nodesPredicate", [drainTaints |-> drainTaints, event |-> e], "none")

Filtered(wake) == IF wake THEN "wake" ELSE "drop"

UpdateEvent ==
    /\ call.fn = "nodesPredicate" /\ ~call.done /\ call.args.event.kind = "update"
    /\ call' = [call EXCEPT
                  !.result = Filtered(UpdateFunc(call.args.drainTaints, call.args.event)),
                  !.done = TRUE]
    /\ UNCHANGED <<pipelineVars, configuration>>

CreateEvent ==
    /\ call.fn = "nodesPredicate" /\ ~call.done /\ call.args.event.kind = "create"
    /\ call' = [call EXCEPT !.result = Filtered(CreateFunc(call.args.event)), !.done = TRUE]
    /\ UNCHANGED <<pipelineVars, configuration>>

DeleteEvent ==
    /\ call.fn = "nodesPredicate" /\ ~call.done /\ call.args.event.kind = "delete"
    /\ call' = [call EXCEPT !.result = Filtered(DeleteFunc(call.args.event)), !.done = TRUE]
    /\ UNCHANGED <<pipelineVars, configuration>>

GenericEvent ==
    /\ call.fn = "nodesPredicate" /\ ~call.done /\ call.args.event.kind = "generic"
    /\ call' = [call EXCEPT !.result = Filtered(GenericFunc(call.args.event)), !.done = TRUE]
    /\ UNCHANGED <<pipelineVars, configuration>>

nodesPredicate == UpdateEvent \/ CreateEvent \/ DeleteEvent \/ GenericEvent

SpecNodes == NodesInit /\ [][nodesPredicate]_vars

\* the taints of a node that carry a key, as a collection and in their order
TaintsWithKey(node, key) == { t \in Range(node.taints) : t.key = key }
TaintsWithKeyInOrder(node, key) == SelectSeq(node.taints, LAMBDA t : t.key = key)

\* C19: the node event filter wakes the cluster controller for an update of
\* a node whenever the node's unschedulable flag differs between the old and
\* the new object, or the taints carrying a watched drain taint key differ
\* (one added, removed, or changed in value or effect, also when several
\* taints of the node share the key); it never wakes it for an update that
\* leaves the flag and those taints unchanged, for an object that is not a
\* node, or for a create, delete or generic event
C19_NodeFilterSeesEveryDrainChange ==
    (call.fn = "nodesPredicate" /\ call.done) =>
        LET e == call.args.event
            keys == Range(call.args.drainTaints)
            nodes == e.objectOld.isNode /\ e.objectNew.isNode
        IN /\ (/\ e.kind = "update" /\ nodes
               /\ \/ e.objectOld.unschedulable # e.objectNew.unschedulable
                  \/ \E k \in keys :
                        TaintsWithKey(e.objectOld, k) # TaintsWithKey(e.objectNew, k))
                 => call.result = "wake"
           /\ (/\ e.kind = "update" /\ nodes
               /\ e.objectOld.unschedulable = e.objectNew.unschedulable
               /\ \A k \in keys :
                     TaintsWithKeyInOrder(e.objectOld, k) = TaintsWithKeyInOrder(e.objectNew, k))
                 => call.result = "drop"
           /\ (e.kind # "update" \/ ~nodes) => call.result = "drop"

====
